---- MODULE Spec2Model ----
(***************************************************************************)
(* Model of the concurrency core of RapidPhotoMobile:                      *)
(*   - UploadQueueManager and its Semaphore   (UploadQueueManager.ts)      *)
(*   - the token refresh coordinator          (lib/utils/tokenRefresh.ts)  *)
(*   - DownloadService and its Semaphore      (download/DownloadService.ts)*)
(*                                                                         *)
(* JavaScript runs handlers to completion: one action of the model is one  *)
(* handler (a call made by the UI, the settlement of a network call, a     *)
(* timer) together with the promise continuations it makes runnable.  Two  *)
(* continuations are actions of their own, because other code can run      *)
(* before them: the continuation of `await semaphore.acquire()` of an      *)
(* independent acquirer, and the .finally callback of handleTokenRefresh,  *)
(* which runs two promise hops after the .then callback that drains the    *)
(* queue.                                                                  *)
(***************************************************************************)
EXTENDS Naturals, Integers, Sequences, FiniteSets, TLC

\* ---------------------------------------------------------------- bounds
MaxAcquirers == 5    \* callers of Semaphore.acquire
MaxPermits == 2      \* largest permit count a Semaphore is constructed with
MaxCallers == 4      \* handleTokenRefresh invocations
MaxDownloads == 3    \* tasks of one downloadPhotos call
MaxFiles == 2        \* distinct file names among them
MaxTasks == 3        \* task ids handed to addTasks over one behaviour
MaxCalls == 2        \* addTasks invocations
MaxCancels == 1      \* cancelAll invocations
MaxConcurrent == 2   \* config.maxConcurrent (6 in the source)
BatchSize == 2       \* config.batchSize (10 in the source)
MaxRequests == 2     \* requests made through apiClient

Tasks == 1..MaxTasks
Calls == 1..MaxCalls

VARIABLES
  queue,           \* UploadQueueManager.queue: sequence of task ids
  isProcessing,    \* UploadQueueManager.isProcessing
  completedTasks,  \* UploadQueueManager.completedTasks: task id -> UploadResult
  call,            \* one record per addTasks invocation
  run,             \* one record per processQueue activation (owned by a call)
  nextTask,        \* next unused task id
  cancels,         \* number of cancelAll calls made
  config,          \* UploadQueueManager.config
  cancelled        \* history: the runs that were executing at a cancelAll

umVars == <<queue, isProcessing, completedTasks, call, run, nextTask, cancels,
            config, cancelled>>

VARIABLES
  sem,             \* a Semaphore used by independent acquirers
  semN,            \* the permit count it was constructed with
  acq,             \* position of each acquirer
  arrivals,        \* acquirers in the order acquire() enqueued them
  grants,          \* acquirers in the order release() resolved them
  maxQueued        \* longest waiting queue a release has found

semVars == <<sem, semN, acq, arrivals, grants, maxQueued>>

VARIABLES
  rqQueue,         \* RequestQueue.queue: callers (their resolve/reject pair)
  isRefreshing,    \* RequestQueue.isRefreshing
  inFlight,        \* refreshAccessToken() calls that have not settled
  pendingFinally,  \* promise chains between their drain and their finally
  refreshCalls,    \* refreshAccessToken() calls made so far
  drains,          \* outcome of every processQueue call, in order
  caller,          \* the promise handed to each handleTokenRefresh caller
  cleared          \* the drains whose failure had SecureStorage.clearTokens invoked

trVars == <<rqQueue, isRefreshing, inFlight, pendingFinally, refreshCalls,
            drains, caller, cleared>>

VARIABLES
  files,           \* names of the files present in DOWNLOAD_DIR
  dl,              \* one record per task of a downloadPhotos call
  dsem,            \* the Semaphore of that call
  dconc            \* its concurrency argument (0: not called yet)

dlVars == <<files, dl, dsem, dconc>>

VARIABLES
  req,             \* one record per request made through apiClient
  store            \* the access token in SecureStorage

apVars == <<req, store>>

vars == <<umVars, semVars, trVars, dlVars, apVars>>

\* ------------------------------------------------------------- helpers
Min(a, b) == IF a < b THEN a ELSE b

\* ----------------------------------------------------------- Semaphore
\* class Semaphore { permits; waiting }
Semaphore(permits) == [permits |-> permits, waiting |-> <<>>]

\* an acquire that takes a free permit and queues the caller all the same
SemAcquire_Enqueues(s, who) ==
  IF s.permits > 0
    THEN [permits |-> s.permits - 1, waiting |-> Append(s.waiting, who)]
    ELSE [s EXCEPT !.waiting = Append(@, who)]

\* acquire(): take a permit when one is free, otherwise enqueue the caller
SemAcquire(s, who) ==
  IF s.permits > 0
    THEN [s EXCEPT !.permits = @ - 1]
    ELSE [s EXCEPT !.waiting = Append(@, who)]

\* a release that wakes the oldest waiter and keeps the permit it returned
SemRelease_KeepsPermit(s) ==
  LET s1 == [s EXCEPT !.permits = @ + 1]
  IN  IF Len(s1.waiting) > 0
        THEN [permits |-> s1.permits, waiting |-> Tail(s1.waiting)]
        ELSE s1

\* a release that wakes the newest waiter (pop instead of shift)
SemRelease_Newest(s) ==
  LET s1 == [s EXCEPT !.permits = @ + 1]
  IN  IF Len(s1.waiting) > 0
        THEN [permits |-> s1.permits - 1,
              waiting |-> SubSeq(s1.waiting, 1, Len(s1.waiting) - 1)]
        ELSE s1

\* a release that wakes the oldest waiter but never counts a permit back
SemRelease_LosesPermit(s) ==
  IF Len(s.waiting) > 0
    THEN [permits |-> s.permits, waiting |-> Tail(s.waiting)]
    ELSE s

\* release(): permits++, then hand the permit to the oldest waiter, if any
SemRelease(s) ==
  LET s1 == [s EXCEPT !.permits = @ + 1]
  IN  IF Len(s1.waiting) > 0
        THEN [permits |-> s1.permits - 1, waiting |-> Tail(s1.waiting)]
        ELSE s1

\* the waiter whose resolve() the release calls (0: none)
SemGranted(s) ==
  LET after == SemRelease(s).waiting
      gone  == {s.waiting[x] : x \in 1..Len(s.waiting)}
                 \ {after[x] : x \in 1..Len(after)}
  IN  IF gone = {} THEN 0 ELSE CHOOSE w \in gone : TRUE

\* ------------------------------------------------- UploadQueueManager
\* UploadResult; taskId 0 stands for "no entry in the map"
NoResult == [taskId |-> 0, success |-> FALSE, error |-> "none"]
UploadResult(t, ok, err) == [taskId |-> t, success |-> ok, error |-> err]

NoRun == [phase |-> "none", i |-> 0, batch |-> <<>>, urlResults |-> <<>>,
          uploads |-> <<>>, sem |-> Semaphore(0)]
NoCall == [pc |-> "none", tasks |-> <<>>, results |-> <<>>]

UploadSettled(u) == u.st \in {"ok", "fail"}

\* processUploadsWithConcurrency, the synchronous part: every wrapper calls
\* semaphore.acquire() in order
RECURSIVE AcquireAll(_, _)
AcquireAll(r, k) ==
  IF k > Len(r.uploads) THEN r
  ELSE LET got == r.sem.permits > 0
           r1  == [r EXCEPT !.sem = SemAcquire(@, k),
                            !.uploads[k].w = IF got THEN "holding" ELSE "waiting"]
       IN  AcquireAll(r1, k + 1)

\* wrappers that release after a successful upload only (no finally block)
RECURSIVE ReleaseSettled_OnSuccessOnly(_)
ReleaseSettled_OnSuccessOnly(r) ==
  LET done == {k \in 1..Len(r.uploads) :
                 r.uploads[k].w = "holding" /\ r.uploads[k].st = "ok"}
  IN  IF done = {} THEN r
      ELSE LET k  == CHOOSE x \in done : \A y \in done : x <= y
               g  == SemGranted(r.sem)
               r1 == [r EXCEPT !.sem = SemRelease(@),
                               !.uploads[k].w = "released"]
               r2 == IF g = 0 THEN r1
                     ELSE [r1 EXCEPT !.uploads[g].w = "holding"]
           IN  ReleaseSettled_OnSuccessOnly(r2)

\* the finally blocks of the wrappers: a wrapper that holds a permit and
\* whose upload promise has settled releases; the waiter it wakes goes on
RECURSIVE ReleaseSettled(_)
ReleaseSettled(r) ==
  LET done == {k \in 1..Len(r.uploads) :
                 r.uploads[k].w = "holding" /\ UploadSettled(r.uploads[k])}
  IN  IF done = {} THEN r
      ELSE LET k  == CHOOSE x \in done : \A y \in done : x <= y
               g  == SemGranted(r.sem)
               r1 == [r EXCEPT !.sem = SemRelease(@),
                               !.uploads[k].w = "released"]
               r2 == IF g = 0 THEN r1
                     ELSE [r1 EXCEPT !.uploads[g].w = "holding"]
           IN  ReleaseSettled(r2)

\* Promise.all(controlledUploads) resolved: reportCompletions (a no-op),
\* processQueue returns
FinishRun(r) ==
  IF \A k \in 1..Len(r.uploads) : r.uploads[k].w = "released"
    THEN [r EXCEPT !.phase = "done"]
    ELSE r

\* a Phase 2 that takes every entry of the authorization results
ExecuteUploads_Unfiltered(r) ==
  [r EXCEPT !.phase = "phase2",
            !.batch = <<>>,
            !.uploads = [k \in 1..Len(r.urlResults) |->
                           [task |-> r.urlResults[k].task, st |-> "transferring",
                            w |-> "none", error |-> "none"]],
            !.sem = Semaphore(config.maxConcurrent)]

\* executeUpload(task, url, photoId) is called for every authorized task
\* when the array of promises is built: uploadToS3 starts at once
ExecuteUploads(r) ==
  LET okIdx == SelectSeq(r.urlResults, LAMBDA x : x.success)
  IN  [r EXCEPT !.phase = "phase2",
                !.batch = <<>>,
                !.uploads = [k \in 1..Len(okIdx) |->
                               [task |-> okIdx[k].task, st |-> "transferring",
                                w |-> "none", error |-> "none"]],
                !.sem = Semaphore(config.maxConcurrent)]

ProcessUploadsWithConcurrency(r) ==
  FinishRun(ReleaseSettled(AcquireAll(ExecuteUploads(r), 1)))

\* requestPresignedUrlsInBatches: the loop test and the body up to the await.
\* With batchSize 0 the slice is empty, Promise.all([]) is already resolved
\* and i does not advance: the loop goes round in promise continuations and
\* never gives the thread back to the event loop.
RequestPresignedUrlsInBatches(r, q) ==
  IF r.i < Len(q)
    THEN IF config.batchSize <= 0
           THEN [r EXCEPT !.phase = "spinning"]
           ELSE [r EXCEPT !.phase = "phase1",
                          !.batch = [j \in 1..Min(config.batchSize, Len(q) - r.i) |->
                                       [task |-> q[r.i + j], st |-> "pending"]]]
    ELSE ProcessUploadsWithConcurrency(r)

\* no timer, network callback or UI handler runs while a run spins
Starved == \E c \in Calls : run[c].phase = "spinning"

\* waitForAllTasks: the test of the while loop
WaitForAllTasks(c) ==
  IF Len(c.results) < Len(c.tasks)
    THEN [c EXCEPT !.pc = "polling"]
    ELSE [c EXCEPT !.pc = "returned"]

\* addTasks resumes after `await this.processQueue()`
ResumeCall(c, r) ==
  IF c.pc = "running" /\ r.phase = "done" THEN WaitForAllTasks(c) ELSE c

NumCalls == Cardinality({c \in Calls : call[c].pc # "none"})

\* new UploadQueueManager(cfg): the fields of cfg are stored as they come
UploadQueueManager(cfg) ==
  [maxConcurrent |-> cfg.maxConcurrent, batchSize |-> cfg.batchSize]

\* the configurations a manager is constructed with in a behaviour
Configs ==
  [maxConcurrent : {0, MaxConcurrent}, batchSize : {0, BatchSize}]

InitUM ==
  /\ config \in {UploadQueueManager(cfg) : cfg \in Configs}
  /\ cancelled = {}
  /\ queue = <<>>
  /\ isProcessing = FALSE
  /\ completedTasks = [t \in Tasks |-> NoResult]
  /\ call = [c \in Calls |-> NoCall]
  /\ run = [c \in Calls |-> NoRun]
  /\ nextTask = 1
  /\ cancels = 0

\* addTasks(tasks) with k >= 1 fresh task ids (usePhotoUpload.upload never
\* passes an empty list)
AddTasks(c, k) ==
  /\ ~Starved
  /\ call[c].pc = "none"
  /\ c = NumCalls + 1
  /\ nextTask + k - 1 <= MaxTasks
  /\ LET ts == [j \in 1..k |-> nextTask + j - 1]
         q  == queue \o ts
         c0 == [pc |-> "running", tasks |-> ts, results |-> <<>>]
     IN  /\ queue' = q
         /\ nextTask' = nextTask + k
         /\ IF ~isProcessing
              THEN LET r == RequestPresignedUrlsInBatches(
                              [NoRun EXCEPT !.phase = "phase1"], q)
                   IN  /\ isProcessing' = TRUE
                       /\ run' = [run EXCEPT ![c] = r]
                       /\ call' = [call EXCEPT ![c] = ResumeCall(c0, r)]
              ELSE /\ call' = [call EXCEPT ![c] = WaitForAllTasks(c0)]
                   /\ UNCHANGED <<isProcessing, run>>
  /\ UNCHANGED <<completedTasks, cancels>>
  /\ UNCHANGED <<config, cancelled>>
  /\ UNCHANGED <<semVars, trVars, dlVars, apVars>>

\* addTasks([t]) for a task id t that already has a Result (the id of a task
\* is the id of its image, which the user may pick again)
Resubmit(c, t) ==
  /\ ~Starved
  /\ call[c].pc = "none"
  /\ c = NumCalls + 1
  /\ completedTasks[t].taskId = t
  /\ LET ts == <<t>>
         q  == queue \o ts
         c0 == [pc |-> "running", tasks |-> ts, results |-> <<>>]
     IN  /\ queue' = q
         /\ IF ~isProcessing
              THEN LET r == RequestPresignedUrlsInBatches(
                              [NoRun EXCEPT !.phase = "phase1"], q)
                   IN  /\ isProcessing' = TRUE
                       /\ run' = [run EXCEPT ![c] = r]
                       /\ call' = [call EXCEPT ![c] = ResumeCall(c0, r)]
              ELSE /\ call' = [call EXCEPT ![c] = WaitForAllTasks(c0)]
                   /\ UNCHANGED <<isProcessing, run>>
  /\ UNCHANGED <<completedTasks, nextTask, cancels>>
  /\ UNCHANGED <<config, cancelled>>
  /\ UNCHANGED <<semVars, trVars, dlVars, apVars>>

\* the authorization request of batch entry j settles
\* (requestPresignedUrl returns a record in both cases)
AuthSettle(c, j, ok) ==
  /\ ~Starved
  /\ run[c].phase = "phase1"
  /\ j \in 1..Len(run[c].batch)
  /\ run[c].batch[j].st = "pending"
  /\ LET r1 == [run[c] EXCEPT !.batch[j].st = IF ok THEN "ok" ELSE "fail"]
         all == \A x \in 1..Len(r1.batch) : r1.batch[x].st # "pending"
         r2 == [r1 EXCEPT
                  !.urlResults = @ \o [x \in 1..Len(r1.batch) |->
                     [task |-> r1.batch[x].task,
                      success |-> r1.batch[x].st = "ok"]],
                  !.i = @ + config.batchSize]
         r3 == IF all THEN RequestPresignedUrlsInBatches(r2, queue) ELSE r1
     IN  /\ run' = [run EXCEPT ![c] = r3]
         /\ call' = [call EXCEPT ![c] = ResumeCall(@, r3)]
  /\ UNCHANGED <<queue, isProcessing, completedTasks, nextTask, cancels>>
  /\ UNCHANGED <<config, cancelled>>
  /\ UNCHANGED <<semVars, trVars, dlVars, apVars>>

\* an executeUpload that records the success Result when the transfer is
\* done, before the completion report
TransferSettle_DoneBeforeReport(c, k, ok) ==
  /\ ~Starved
  /\ run[c].phase = "phase2"
  /\ k \in 1..Len(run[c].uploads)
  /\ run[c].uploads[k].st = "transferring"
  /\ LET t  == run[c].uploads[k].task
         r1 == IF ok
                 THEN [run[c] EXCEPT !.uploads[k].st = "reporting"]
                 ELSE [run[c] EXCEPT !.uploads[k].st = "fail",
                                     !.uploads[k].error = "transfer"]
         r2 == FinishRun(ReleaseSettled(r1))
     IN  /\ run' = [run EXCEPT ![c] = r2]
         /\ call' = [call EXCEPT ![c] = ResumeCall(@, r2)]
         /\ completedTasks' =
              [completedTasks EXCEPT ![t] = UploadResult(t, ok,
                                              IF ok THEN "none" ELSE "transfer")]
  /\ UNCHANGED <<queue, isProcessing, nextTask, cancels>>
  /\ UNCHANGED <<config, cancelled>>
  /\ UNCHANGED <<semVars, trVars, dlVars, apVars>>

\* executeUpload: uploadToS3 of upload k settles
TransferSettle(c, k, ok) ==
  /\ ~Starved
  /\ run[c].phase = "phase2"
  /\ k \in 1..Len(run[c].uploads)
  /\ run[c].uploads[k].st = "transferring"
  /\ LET t  == run[c].uploads[k].task
         r1 == IF ok
                 THEN [run[c] EXCEPT !.uploads[k].st = "reporting"]
                 ELSE [run[c] EXCEPT !.uploads[k].st = "fail",
                                     !.uploads[k].error = "transfer"]
         r2 == FinishRun(ReleaseSettled(r1))
     IN  /\ run' = [run EXCEPT ![c] = r2]
         /\ call' = [call EXCEPT ![c] = ResumeCall(@, r2)]
         /\ completedTasks' =
              IF ok THEN completedTasks
              ELSE [completedTasks EXCEPT ![t] = UploadResult(t, FALSE, "transfer")]
  /\ UNCHANGED <<queue, isProcessing, nextTask, cancels>>
  /\ UNCHANGED <<config, cancelled>>
  /\ UNCHANGED <<semVars, trVars, dlVars, apVars>>

\* an executeUpload that starts the transfer again when the completion
\* report is rejected
ReportSettle_Retries(c, k, ok) ==
  /\ ~Starved
  /\ run[c].phase = "phase2"
  /\ k \in 1..Len(run[c].uploads)
  /\ run[c].uploads[k].st = "reporting"
  /\ LET t  == run[c].uploads[k].task
         r1 == IF ok
                 THEN [run[c] EXCEPT !.uploads[k].st = "ok"]
                 ELSE [run[c] EXCEPT !.uploads[k].st = "transferring"]
         r2 == FinishRun(ReleaseSettled(r1))
     IN  /\ run' = [run EXCEPT ![c] = r2]
         /\ call' = [call EXCEPT ![c] = ResumeCall(@, r2)]
         /\ completedTasks' =
              IF ok THEN [completedTasks EXCEPT ![t] = UploadResult(t, TRUE, "none")]
                    ELSE completedTasks
  /\ UNCHANGED <<queue, isProcessing, nextTask, cancels>>
  /\ UNCHANGED <<config, cancelled>>
  /\ UNCHANGED <<semVars, trVars, dlVars, apVars>>

\* executeUpload: reportCompletion of upload k settles
ReportSettle(c, k, ok) ==
  /\ ~Starved
  /\ run[c].phase = "phase2"
  /\ k \in 1..Len(run[c].uploads)
  /\ run[c].uploads[k].st = "reporting"
  /\ LET t  == run[c].uploads[k].task
         r1 == IF ok
                 THEN [run[c] EXCEPT !.uploads[k].st = "ok"]
                 ELSE [run[c] EXCEPT !.uploads[k].st = "fail",
                                     !.uploads[k].error = "report"]
         r2 == FinishRun(ReleaseSettled(r1))
     IN  /\ run' = [run EXCEPT ![c] = r2]
         /\ call' = [call EXCEPT ![c] = ResumeCall(@, r2)]
         /\ completedTasks' =
              [completedTasks EXCEPT ![t] =
                 IF ok THEN UploadResult(t, TRUE, "none")
                       ELSE UploadResult(t, FALSE, "report")]
  /\ UNCHANGED <<queue, isProcessing, nextTask, cancels>>
  /\ UNCHANGED <<config, cancelled>>
  /\ UNCHANGED <<semVars, trVars, dlVars, apVars>>

\* waitForAllTasks: one pass of the scan over taskIds
RECURSIVE Scan(_, _, _)
Scan(ids, results, done) ==
  IF Len(ids) = 0 THEN results
  ELSE LET t == Head(ids)
           found == \E x \in 1..Len(results) : results[x].taskId = t
       IN  IF ~found /\ done[t].taskId = t
             THEN Scan(Tail(ids), Append(results, done[t]), done)
             ELSE Scan(Tail(ids), results, done)

\* waitForAllTasks: the 100 ms timer fires
PollTick(c) ==
  /\ ~Starved
  /\ call[c].pc = "polling"
  /\ LET c1 == [call[c] EXCEPT !.results = Scan(call[c].tasks, @, completedTasks)]
     IN  call' = [call EXCEPT ![c] = WaitForAllTasks(c1)]
  /\ UNCHANGED <<queue, isProcessing, completedTasks, run, nextTask, cancels>>
  /\ UNCHANGED <<config, cancelled>>
  /\ UNCHANGED <<semVars, trVars, dlVars, apVars>>

\* a cancelAll that also forgets the completed Results
CancelAll_ClearsResults ==
  /\ ~Starved
  /\ cancels < MaxCancels
  /\ queue' = <<>>
  /\ isProcessing' = FALSE
  /\ cancels' = cancels + 1
  /\ cancelled' = cancelled \cup {c \in Calls : run[c].phase \in {"phase1", "phase2"}}
  /\ completedTasks' = [t \in Tasks |-> NoResult]
  /\ UNCHANGED <<call, run, nextTask, config>>
  /\ UNCHANGED <<semVars, trVars, dlVars, apVars>>

\* cancelAll()
CancelAll ==
  /\ ~Starved
  /\ cancels < MaxCancels
  /\ queue' = <<>>
  /\ isProcessing' = FALSE
  /\ cancels' = cancels + 1
  /\ cancelled' = cancelled \cup {c \in Calls : run[c].phase \in {"phase1", "phase2"}}
  /\ UNCHANGED <<completedTasks, call, run, nextTask, config>>
  /\ UNCHANGED <<semVars, trVars, dlVars, apVars>>

\* the field activeUploads: initialised to 0 and assigned nowhere
activeUploads == 0

\* getStatus(); completedTasks.size is the number of task ids with a Result
GetStatus ==
  LET completed == Cardinality({t \in Tasks : completedTasks[t].taskId = t})
  IN  [queued    |-> Len(queue),
       active    |-> activeUploads,
       completed |-> completed,
       total     |-> Len(queue) + activeUploads + completed]

NextUM ==
  \/ \E c \in Calls, k \in 1..MaxTasks : AddTasks(c, k)
  \/ \E c \in Calls, t \in Tasks : Resubmit(c, t)
  \/ \E c \in Calls, j \in 1..BatchSize, ok \in BOOLEAN : AuthSettle(c, j, ok)
  \/ \E c \in Calls, k \in Tasks, ok \in BOOLEAN : TransferSettle(c, k, ok)
  \/ \E c \in Calls, k \in Tasks, ok \in BOOLEAN : ReportSettle(c, k, ok)
  \/ \E c \in Calls : PollTick(c)
  \/ CancelAll

\* ------------------------------------------ Semaphore, used on its own
Acquirers == 1..MaxAcquirers

InitSem ==
  /\ semN \in 1..MaxPermits
  /\ sem = Semaphore(semN)
  /\ acq = [p \in Acquirers |-> "idle"]
  /\ arrivals = <<>>
  /\ grants = <<>>
  /\ maxQueued = 0

\* an acquire that takes over the permit handed to a waiter whose
\* continuation has not run yet, and puts that waiter back at the head
SemAcquireCall_Barges(p) ==
  /\ acq[p] = "idle"
  /\ LET woken == {q \in Acquirers :
                     acq[q] = "granted" /\ \E x \in 1..Len(grants) : grants[x] = q}
     IN  IF woken # {}
           THEN LET q == CHOOSE w \in woken : TRUE
                IN  /\ sem' = [sem EXCEPT !.waiting = <<q>> \o @]
                    /\ acq' = [acq EXCEPT ![p] = "granted", ![q] = "waiting"]
                    /\ UNCHANGED arrivals
           ELSE /\ sem' = SemAcquire(sem, p)
                /\ IF sem.permits > 0
                     THEN /\ acq' = [acq EXCEPT ![p] = "granted"]
                          /\ UNCHANGED arrivals
                     ELSE /\ acq' = [acq EXCEPT ![p] = "waiting"]
                          /\ arrivals' = Append(arrivals, p)
  /\ UNCHANGED <<semN, grants, maxQueued>>
  /\ UNCHANGED <<umVars, trVars, dlVars, apVars>>

\* p calls acquire(): with a free permit the returned promise is resolved,
\* otherwise p's resolve function is queued
SemAcquireCall(p) ==
  /\ acq[p] = "idle"
  /\ sem' = SemAcquire(sem, p)
  /\ IF sem.permits > 0
       THEN /\ acq' = [acq EXCEPT ![p] = "granted"]
            /\ UNCHANGED arrivals
       ELSE /\ acq' = [acq EXCEPT ![p] = "waiting"]
            /\ arrivals' = Append(arrivals, p)
  /\ UNCHANGED <<semN, grants, maxQueued>>
  /\ UNCHANGED <<umVars, trVars, dlVars, apVars>>

\* the continuation of `await semaphore.acquire()` runs
SemResume(p) ==
  /\ acq[p] = "granted"
  /\ acq' = [acq EXCEPT ![p] = "holding"]
  /\ UNCHANGED <<sem, semN, arrivals, grants, maxQueued>>
  /\ UNCHANGED <<umVars, trVars, dlVars, apVars>>

\* p, holding a permit, calls release()
SemReleaseCall(p) ==
  /\ acq[p] = "holding"
  /\ LET g == SemGranted(sem)
     IN  /\ sem' = SemRelease(sem)
         /\ acq' = IF g = 0 THEN [acq EXCEPT ![p] = "released"]
                   ELSE [acq EXCEPT ![p] = "released", ![g] = "granted"]
         /\ grants' = IF g = 0 THEN grants ELSE Append(grants, g)
         /\ maxQueued' = IF Len(sem.waiting) > maxQueued
                            THEN Len(sem.waiting) ELSE maxQueued
  /\ UNCHANGED <<semN, arrivals>>
  /\ UNCHANGED <<umVars, trVars, dlVars, apVars>>

NextSem ==
  \/ \E p \in Acquirers : SemAcquireCall(p)
  \/ \E p \in Acquirers : SemResume(p)
  \/ \E p \in Acquirers : SemReleaseCall(p)

\* -------------------------------------------- token refresh coordinator
Callers == 1..MaxCallers
RefreshOutcomes == {"token", "null"}   \* what refreshAccessToken resolves with

NoCaller == [st |-> "none", error |-> "none", by |-> 0]

\* the two callers of handleTokenRefresh: validateAndRefreshToken in the
\* request interceptor (odd callers) and the 401 branch of the response
\* interceptor (even callers)
Path(p) == IF p % 2 = 1 THEN "request" ELSE "response"

\* refreshAccessToken(): what it resolves with and whether its catch block,
\* which calls SecureStorage.clearTokens, ran.  A missing refresh token
\* returns null from inside the try block.
RefreshCauses == {"ok", "missing", "notOk", "network"}
RefreshAccessToken(cause) ==
  [token   |-> IF cause = "ok" THEN "token" ELSE "null",
   cleared |-> cause \in {"notOk", "network"}]

\* the catch block of the response interceptor calls clearTokens when its
\* handleTokenRefresh promise is rejected; validateAndRefreshToken's caller
\* only logs the error
InterceptorClears(q, error) ==
  error # "none" /\ \E x \in 1..Len(q) : Path(q[x]) = "response"

InitTR ==
  /\ rqQueue = <<>>
  /\ isRefreshing = FALSE
  /\ inFlight = 0
  /\ pendingFinally = 0
  /\ refreshCalls = 0
  /\ drains = <<>>
  /\ caller = [p \in Callers |-> NoCaller]
  /\ cleared = {}

\* a processQueue that hands the error to the first entry only
ProcessQueue_FirstOnly(q, cs, error, n) ==
  [p \in Callers |->
     IF \E x \in 1..Len(q) : q[x] = p
       THEN IF error # "none" /\ q[1] = p
              THEN [st |-> "rejected", error |-> error, by |-> n]
              ELSE [st |-> "resolved", error |-> "none", by |-> n]
       ELSE cs[p]]

\* RequestQueue.processQueue(error): settle every entry, then empty the queue
ProcessQueue(q, cs, error, n) ==
  [p \in Callers |->
     IF \E x \in 1..Len(q) : q[x] = p
       THEN IF error # "none"
              THEN [st |-> "rejected", error |-> error, by |-> n]
              ELSE [st |-> "resolved", error |-> "none", by |-> n]
       ELSE cs[p]]

\* a handleTokenRefresh without the early return
StartsRefresh_Always(refreshing) == TRUE

\* the test `if (requestQueue.isRefreshingToken) return;`
StartsRefresh(refreshing) == ~refreshing

\* handleTokenRefresh(originalRequest), the promise executor
HandleTokenRefresh(p) ==
  /\ caller[p].st = "none"
  /\ rqQueue' = Append(rqQueue, p)
  /\ caller' = [caller EXCEPT ![p].st = "queued"]
  /\ IF StartsRefresh(isRefreshing)
       THEN /\ isRefreshing' = TRUE
            /\ inFlight' = inFlight + 1
            /\ refreshCalls' = refreshCalls + 1
       ELSE UNCHANGED <<isRefreshing, inFlight, refreshCalls>>
  /\ UNCHANGED <<pendingFinally, drains, cleared>>
  /\ UNCHANGED <<umVars, semVars, dlVars, apVars>>

\* refreshAccessToken() settles; the .then callback drains the queue
RefreshSettle(o) ==
  /\ inFlight > 0
  /\ inFlight' = inFlight - 1
  /\ pendingFinally' = pendingFinally + 1
  /\ \E cause \in RefreshCauses :
       LET r     == RefreshAccessToken(cause)
           error == IF o = "token" THEN "none" ELSE "Token refresh failed"
           n     == Len(drains) + 1
       IN  /\ r.token = o
           /\ caller' = ProcessQueue(rqQueue, caller, error, n)
           /\ cleared' = IF r.cleared \/ InterceptorClears(rqQueue, error)
                            THEN cleared \cup {n} ELSE cleared
  /\ drains' = Append(drains, o)
  /\ rqQueue' = <<>>
  /\ UNCHANGED <<isRefreshing, refreshCalls>>
  /\ UNCHANGED <<umVars, semVars, dlVars, apVars>>

\* the .finally callback
RefreshFinally ==
  /\ pendingFinally > 0
  /\ pendingFinally' = pendingFinally - 1
  /\ isRefreshing' = FALSE
  /\ UNCHANGED <<rqQueue, inFlight, refreshCalls, drains, caller, cleared>>
  /\ UNCHANGED <<umVars, semVars, dlVars, apVars>>

NextTR ==
  \/ \E p \in Callers : HandleTokenRefresh(p)
  \/ \E o \in RefreshOutcomes : RefreshSettle(o)
  \/ RefreshFinally

\* ------------------------------------------------------ DownloadService
Files == 1..MaxFiles

InitDL ==
  /\ files = {}
  /\ dl = <<>>
  /\ dsem = Semaphore(0)
  /\ dconc = 0

\* DownloadResult of task d
DownloadResult(rec, ok, uri, err) ==
  [rec EXCEPT !.pc = "done", !.success = ok, !.localUri = uri, !.error = err]

\* downloadPhoto is entered by the wrapper that got a permit: checkPermissions
\* returns true, ensureDownloadDirectory asks for the directory's info
StartDownloadPhoto(rec, fs) ==
  [rec EXCEPT !.pc = "ensureDir", !.existed = rec.file \in fs]

\* wrappers that call downloadPhoto before their acquire() has resolved
RECURSIVE DlAcquireAll_Eager(_, _, _, _)
DlAcquireAll_Eager(ds, s, k, fs) ==
  IF k > Len(ds) THEN [dl |-> ds, sem |-> s]
  ELSE DlAcquireAll_Eager([ds EXCEPT ![k] = StartDownloadPhoto(@, fs)],
                          SemAcquire(s, k), k + 1, fs)

\* downloadPhotos, the synchronous part: every wrapper calls acquire() in
\* task order
RECURSIVE DlAcquireAll(_, _, _, _)
DlAcquireAll(ds, s, k, fs) ==
  IF k > Len(ds) THEN [dl |-> ds, sem |-> s]
  ELSE DlAcquireAll(
         [ds EXCEPT ![k] = IF s.permits > 0 THEN StartDownloadPhoto(@, fs)
                           ELSE [@ EXCEPT !.pc = "waiting"]],
         SemAcquire(s, k), k + 1, fs)

\* downloadPhotos(tasks, onProgress, onTaskComplete, concurrency)
DownloadPhotos(n, conc, fileOf) ==
  /\ dconc = 0
  /\ dconc' = conc
  /\ LET ds == [k \in 1..n |->
                  [pc |-> "idle", file |-> fileOf[k], existed |-> FALSE,
                   transfers |-> 0, success |-> FALSE, localUri |-> 0,
                   error |-> "none"]]
         st == DlAcquireAll(ds, Semaphore(conc), 1, files)
     IN  /\ dl' = st.dl
         /\ dsem' = st.sem
  /\ UNCHANGED files
  /\ UNCHANGED <<umVars, semVars, trVars, apVars>>

\* onTaskComplete(result), the caller's callback: when it throws, the
\* wrapper's promise is rejected instead of resolved with the result
OnTaskComplete(throws, res) ==
  IF throws THEN [res EXCEPT !.pc = "threw"] ELSE res

\* a wrapper that releases after its try block instead of in a finally
DlReturn_NoFinally(d, res, fs) ==
  LET g  == SemGranted(dsem)
      d1 == [dl EXCEPT ![d] = res]
  IN  IF res.pc = "threw"
        THEN dsem' = dsem /\ dl' = d1
        ELSE /\ dsem' = SemRelease(dsem)
             /\ dl' = IF g = 0 THEN d1
                      ELSE [d1 EXCEPT ![g] = StartDownloadPhoto(@, fs)]

\* downloadPhoto of task d returned `res`: onTaskComplete, then the finally
\* block releases the permit and the waiter it wakes enters downloadPhoto
DlReturn(d, res, fs) ==
  LET g  == SemGranted(dsem)
      d1 == [dl EXCEPT ![d] = res]
  IN  /\ dsem' = SemRelease(dsem)
      /\ dl' = IF g = 0 THEN d1
               ELSE [d1 EXCEPT ![g] = StartDownloadPhoto(@, fs)]

\* ensureDownloadDirectory settles
DlDirSettle(d, ok) ==
  /\ d \in 1..Len(dl)
  /\ dl[d].pc = "ensureDir"
  /\ IF ok
       THEN /\ dl' = [dl EXCEPT ![d].pc = "url"]
            /\ UNCHANGED dsem
       ELSE \E th \in BOOLEAN :
              DlReturn(d, OnTaskComplete(th, DownloadResult(dl[d], FALSE, 0,
                        "Unable to create download directory")), files)
  /\ UNCHANGED <<files, dconc>>
  /\ UNCHANGED <<umVars, semVars, trVars, apVars>>

\* getPhotoDownloadUrl settles; on success getInfoAsync(localUri) is asked
DlUrlSettle(d, ok) ==
  /\ d \in 1..Len(dl)
  /\ dl[d].pc = "url"
  /\ IF ok
       THEN /\ dl' = [dl EXCEPT ![d].pc = "info"]
            /\ UNCHANGED dsem
       ELSE \E th \in BOOLEAN :
              DlReturn(d, OnTaskComplete(th, DownloadResult(dl[d], FALSE, 0, "url")), files)
  /\ UNCHANGED <<files, dconc>>
  /\ UNCHANGED <<umVars, semVars, trVars, apVars>>

\* getInfoAsync(localUri) settles: an existing file is reported at once,
\* otherwise downloadAsync starts
DlInfoSettle(d) ==
  /\ d \in 1..Len(dl)
  /\ dl[d].pc = "info"
  /\ IF dl[d].file \in files
       THEN \E th \in BOOLEAN :
              DlReturn(d, OnTaskComplete(th, DownloadResult(dl[d], TRUE, dl[d].file, "none")), files)
       ELSE /\ dl' = [dl EXCEPT ![d].pc = "transfer",
                                ![d].transfers = @ + 1]
            /\ UNCHANGED dsem
  /\ UNCHANGED <<files, dconc>>
  /\ UNCHANGED <<umVars, semVars, trVars, apVars>>

\* FileSystem.downloadAsync settles
DlTransferSettle(d, ok) ==
  /\ d \in 1..Len(dl)
  /\ dl[d].pc = "transfer"
  /\ IF ok
       THEN /\ files' = files \cup {dl[d].file}
            /\ \E th \in BOOLEAN :
              DlReturn(d, OnTaskComplete(th, DownloadResult(dl[d], TRUE, dl[d].file, "none")),
                        files \cup {dl[d].file})
       ELSE /\ files' = files
            /\ \E th \in BOOLEAN :
              DlReturn(d, OnTaskComplete(th, DownloadResult(dl[d], FALSE, 0, "transfer")), files)
  /\ UNCHANGED dconc
  /\ UNCHANGED <<umVars, semVars, trVars, apVars>>

\* a downloadPhotos that returns the results of the successful tasks only
PromiseAll_SuccessesOnly(ds) ==
  IF \E d \in 1..Len(ds) : ds[d].pc = "threw"
    THEN [st |-> "rejected", results |-> <<>>]
  ELSE IF \A d \in 1..Len(ds) : ds[d].pc = "done"
    THEN [st |-> "resolved",
          results |-> SelectSeq([d \in 1..Len(ds) |->
                         [task |-> d, file |-> ds[d].file, success |-> ds[d].success,
                          localUri |-> ds[d].localUri, error |-> ds[d].error]],
                       LAMBDA x : x.success)]
  ELSE [st |-> "pending", results |-> <<>>]

\* what the promise of downloadPhotos has settled with:
\* Promise.all(downloadPromises) rejects as soon as a wrapper has rejected
\* and resolves, when all have resolved, with their values in task order
PromiseAll(ds) ==
  IF \E d \in 1..Len(ds) : ds[d].pc = "threw"
    THEN [st |-> "rejected", results |-> <<>>]
  ELSE IF \A d \in 1..Len(ds) : ds[d].pc = "done"
    THEN [st |-> "resolved",
          results |-> [d \in 1..Len(ds) |->
                         [task |-> d, file |-> ds[d].file, success |-> ds[d].success,
                          localUri |-> ds[d].localUri, error |-> ds[d].error]]]
  ELSE [st |-> "pending", results |-> <<>>]

NextDL ==
  \/ \E n \in 1..MaxDownloads, conc \in 1..MaxPermits :
       \E fileOf \in [1..n -> Files] : DownloadPhotos(n, conc, fileOf)
  \/ \E d \in 1..MaxDownloads, ok \in BOOLEAN : DlDirSettle(d, ok)
  \/ \E d \in 1..MaxDownloads, ok \in BOOLEAN : DlUrlSettle(d, ok)
  \/ \E d \in 1..MaxDownloads : DlInfoSettle(d)
  \/ \E d \in 1..MaxDownloads, ok \in BOOLEAN : DlTransferSettle(d, ok)

\* ------------------------------------------------------------ API client
Requests == 1..MaxRequests
Urls == {"login", "signup", "refresh", "photos"}

\* access tokens: "none" no token stored, "bad" not of JWT format, "due"
\* well-formed and within the refresh threshold, "fresh" well-formed and not
\* due, "new" the token a refresh has just stored (not due)
Tokens == {"none", "bad", "due", "fresh", "new"}

NoRequest ==
  [pc |-> "idle", url |-> "none", retry |-> FALSE, header |-> "none",
   token |-> "none", proactive |-> "none", byRequest |-> 0, by401 |-> 0,
   retries |-> 0]

InitAPI ==
  /\ req = [r \in Requests |-> NoRequest]
  /\ store = "none"

\* a list of public endpoints without the refresh endpoint
IsPublicEndpoint_NoRefresh(url) == url \in {"login", "signup"}

\* isPublicEndpoint(url)
IsPublicEndpoint(url) == url \in {"login", "signup", "refresh"}

IsValidTokenFormat(t) == t # "bad"
ShouldRefreshToken(t) == t = "due"

\* the request interceptor up to its first wait on handleTokenRefresh:
\* public endpoints and requests without a token go out as they are, a
\* malformed token is not attached, a token that is due starts
\* validateAndRefreshToken's handleTokenRefresh(null)
RequestInterceptor(q, tok) ==
  IF IsPublicEndpoint(q.url) \/ tok = "none"
    THEN [q EXCEPT !.pc = "sent"]
  ELSE IF ~IsValidTokenFormat(tok)
    THEN [q EXCEPT !.pc = "sent"]
  ELSE IF ShouldRefreshToken(tok)
    THEN [q EXCEPT !.pc = "proactive", !.token = tok, !.byRequest = @ + 1]
  ELSE [q EXCEPT !.pc = "sent", !.header = tok]

\* a login stores an access token
SetAccessToken(t) ==
  /\ store = "none"
  /\ store' = t
  /\ UNCHANGED req
  /\ UNCHANGED <<umVars, semVars, trVars, dlVars>>

\* apiClient.request(config) for a new request
ApiRequest(r, url) ==
  /\ req[r].pc = "idle"
  /\ req' = [req EXCEPT ![r] = RequestInterceptor([NoRequest EXCEPT !.url = url], store)]
  /\ UNCHANGED store
  /\ UNCHANGED <<umVars, semVars, trVars, dlVars>>

\* what validateAndRefreshToken returns when handleTokenRefresh(null) has
\* resolved: the promise resolves with no value, so `newToken || token` is
\* the token it was called with
ValidateAndRefreshToken(tok) == tok

\* the promise of validateAndRefreshToken's handleTokenRefresh settles.
\* Resolved: refreshAccessToken has stored the new token.  Rejected: the
\* interceptor's catch logs the error and the request goes out with the
\* headers it had; refreshAccessToken may have cleared the store.
ProactiveSettle(r, ok, clearedStore) ==
  /\ req[r].pc = "proactive"
  /\ IF ok
       THEN /\ req' = [req EXCEPT ![r].pc = "sent",
                                  ![r].proactive = "resolved",
                                  ![r].header = ValidateAndRefreshToken(req[r].token)]
            /\ store' = "new"
       ELSE /\ req' = [req EXCEPT ![r].pc = "sent", ![r].proactive = "rejected"]
            /\ store' = IF clearedStore THEN "none" ELSE store
  /\ UNCHANGED <<umVars, semVars, trVars, dlVars>>

\* a response interceptor that does not look at the _retry mark
ApiResponse_IgnoresRetryMark(r, status) ==
  /\ req[r].pc = "sent"
  /\ req' = [req EXCEPT ![r] =
       IF status = "ok" THEN [@ EXCEPT !.pc = "done"]
       ELSE IF status # "401" THEN [@ EXCEPT !.pc = "failed"]
       ELSE IF IsPublicEndpoint(@.url) THEN [@ EXCEPT !.pc = "failed"]
       ELSE [@ EXCEPT !.pc = "refreshing", !.retry = TRUE, !.by401 = @ + 1]]
  /\ UNCHANGED store
  /\ UNCHANGED <<umVars, semVars, trVars, dlVars>>

\* the response interceptor: a response arrives
ApiResponse(r, status) ==
  /\ req[r].pc = "sent"
  /\ req' = [req EXCEPT ![r] =
       IF status = "ok" THEN [@ EXCEPT !.pc = "done"]
       ELSE IF status # "401" THEN [@ EXCEPT !.pc = "failed"]
       ELSE IF IsPublicEndpoint(@.url) THEN [@ EXCEPT !.pc = "failed"]
       ELSE IF @.retry THEN [@ EXCEPT !.pc = "failed"]
       ELSE [@ EXCEPT !.pc = "refreshing", !.retry = TRUE, !.by401 = @ + 1]]
  /\ UNCHANGED store
  /\ UNCHANGED <<umVars, semVars, trVars, dlVars>>

\* the promise of the response interceptor's handleTokenRefresh settles.
\* Resolved: the stored token is attached and apiClient(originalRequest)
\* sends the request again, through the request interceptor.  Rejected:
\* clearTokens, and the 401 is passed on.
RetrySettle(r, ok) ==
  /\ req[r].pc = "refreshing"
  /\ IF ok
       THEN /\ store' = "new"
            /\ req' = [req EXCEPT ![r] =
                 RequestInterceptor([@ EXCEPT !.header = "new",
                                              !.retries = @ + 1], "new")]
       ELSE /\ store' = "none"
            /\ req' = [req EXCEPT ![r].pc = "failed"]
  /\ UNCHANGED <<umVars, semVars, trVars, dlVars>>

NextAPI ==
  \/ \E t \in {"bad", "due", "fresh"} : SetAccessToken(t)
  \/ \E r \in Requests, url \in Urls : ApiRequest(r, url)
  \/ \E r \in Requests, ok \in BOOLEAN, cl \in BOOLEAN : ProactiveSettle(r, ok, cl)
  \/ \E r \in Requests, status \in {"ok", "401", "error"} : ApiResponse(r, status)
  \/ \E r \in Requests, ok \in BOOLEAN : RetrySettle(r, ok)

\* ------------------------------------------------------- specifications
Init == InitUM /\ InitSem /\ InitTR /\ InitDL /\ InitAPI

Next == NextUM
Spec == Init /\ [][Next]_vars

SemSpec == Init /\ [][NextSem]_vars

RefreshSpec == Init /\ [][NextTR]_vars

DownloadSpec == Init /\ [][NextDL]_vars

\* the two queue managers; they share no state, and a behaviour runs the
\* one or the other
NextManagers ==
  \/ NumCalls = 0 /\ cancels = 0 /\ NextDL
  \/ dconc = 0 /\ NextUM
ManagersSpec == Init /\ [][NextManagers]_vars

ClientSpec == Init /\ [][NextAPI]_vars

\* every refresh call settles and every promise callback runs
RefreshFairSpec ==
  /\ RefreshSpec
  /\ WF_vars(\E o \in RefreshOutcomes : RefreshSettle(o))
  /\ WF_vars(RefreshFinally)

\* timers fire and every collaborator call settles
FairSpec ==
  /\ Spec
  /\ WF_vars(\E c \in Calls, j \in 1..BatchSize, ok \in BOOLEAN : AuthSettle(c, j, ok))
  /\ WF_vars(\E c \in Calls, k \in Tasks, ok \in BOOLEAN : TransferSettle(c, k, ok))
  /\ WF_vars(\E c \in Calls, k \in Tasks, ok \in BOOLEAN : ReportSettle(c, k, ok))
  /\ WF_vars(\E c \in Calls : PollTick(c))

\* ---------------------------------------------------------------- claims
\* the configurations the specification allows
ValidConfig == config.maxConcurrent > 0 /\ config.batchSize > 0

Transferring(c) ==
  {k \in 1..Len(run[c].uploads) : run[c].uploads[k].st = "transferring"}

\* C1: in every reachable state at most maxConcurrent transfers (uploadToS3
\* started, not settled) of a run are in flight.
C1_TransferBound ==
  ValidConfig =>
    \A c \in Calls : Cardinality(Transferring(c)) <= config.maxConcurrent

\* what the authorization, transfer and report calls of task t in run c did
AuthOk(c, t) ==
  \E x \in 1..Len(run[c].urlResults) :
     run[c].urlResults[x].task = t /\ run[c].urlResults[x].success
AllSucceeded(c, t) ==
  /\ AuthOk(c, t)
  /\ \E k \in 1..Len(run[c].uploads) :
        run[c].uploads[k].task = t /\ run[c].uploads[k].st = "ok"

\* the list addTasks returned, or the one its next timer pass builds
ResultList(c) ==
  IF call[c].pc = "returned" THEN call[c].results
  ELSE Scan(call[c].tasks, call[c].results, completedTasks)

\* C2: one addTasks call on a fresh manager: once its pipeline run is over,
\* the call returns exactly one Result per input task, and a Result says
\* success exactly when the task's authorization, transfer and report all
\* succeeded.
C2_ResultPerTask ==
  (ValidConfig /\ NumCalls = 1 /\ cancels = 0 /\ run[1].phase = "done") =>
     LET rs == ResultList(1)
     IN  /\ Len(rs) = Len(call[1].tasks)
         /\ \A x \in 1..Len(call[1].tasks) :
               \E y \in 1..Len(rs) :
                  /\ rs[y].taskId = call[1].tasks[x]
                  /\ rs[y].success = AllSucceeded(1, call[1].tasks[x])

\* C3: a task whose authorization request failed has, when its run is over,
\* a Result with success = false in completedTasks.
C3_AuthFailureRecorded ==
  \A c \in Calls :
    (ValidConfig /\ run[c].phase = "done") =>
      \A x \in 1..Len(run[c].urlResults) :
        ~run[c].urlResults[x].success =>
           LET t == run[c].urlResults[x].task
           IN  completedTasks[t].taskId = t /\ ~completedTasks[t].success

NoFailure ==
  /\ cancels = 0
  /\ \A c \in Calls :
       /\ \A x \in 1..Len(run[c].batch) : run[c].batch[x].st # "fail"
       /\ \A x \in 1..Len(run[c].urlResults) : run[c].urlResults[x].success
       /\ \A x \in 1..Len(run[c].uploads) : run[c].uploads[x].st # "fail"

\* C4: an addTasks call made while the manager is Processing eventually
\* resolves.  Stated for the behaviours in which no collaborator call fails
\* and cancelAll is not called, a part of what the claim covers.
C4_LateCallResolves ==
  \A c \in Calls :
    (call[c].pc = "polling" /\ run[c].phase = "none")
       ~> (call[c].pc = "returned" \/ ~NoFailure \/ ~ValidConfig)

NoRunExecuting == \A c \in Calls : run[c].phase \in {"none", "done"}

\* C5: the manager is Idle again when its run has finished: an addTasks call
\* made after an earlier call has resolved, with no run executing, starts a
\* pipeline run.
C5_NewRunAfterReturn ==
  [][\A d \in Calls :
       ( /\ call[d].pc = "none" /\ call'[d].pc # "none"
         /\ NoRunExecuting
         /\ \E c \in Calls : call[c].pc = "returned" )
       => run'[d].phase # "none"]_vars

\* C6: at most one processQueue activation is executing at any time.
C6_SingleRun ==
  ValidConfig =>
    Cardinality({c \in Calls : run[c].phase \in {"phase1", "phase2"}}) <= 1

Holders == {p \in Acquirers : acq[p] \in {"granted", "holding"}}

\* C7: the callers that have acquired and not yet released are at most the
\* number of permits the Semaphore was created with.
C7_HoldersBound == Cardinality(Holders) <= semN

\* a release handed a permit to a waiter while others wait and all permits
\* are out
C7_Witness ==
  /\ Cardinality(Holders) = semN
  /\ Len(grants) >= 1
  /\ Len(sem.waiting) >= 1

\* C8: waiters are granted in arrival order: the grants are a prefix of the
\* arrivals and the waiting queue is the rest of them, so each release
\* grants the oldest waiter.
C8_FifoGrants ==
  /\ Len(grants) <= Len(arrivals)
  /\ \A x \in 1..Len(grants) : grants[x] = arrivals[x]
  /\ sem.waiting = SubSeq(arrivals, Len(grants) + 1, Len(arrivals))

\* three waiters were queued together and all three have been granted
C8_Witness == maxQueued >= 3 /\ Len(grants) >= 3

\* C9: at most one refreshAccessToken call is in flight, and all the
\* handleTokenRefresh calls that arrive before the first refresh settles
\* make exactly one refresh call.
C9_SingleFlight ==
  /\ inFlight <= 1
  /\ (drains = <<>> /\ \E p \in Callers : caller[p].st # "none")
       => refreshCalls = 1

\* three or more callers wait on one refresh call
C9_Witness ==
  /\ inFlight = 1
  /\ refreshCalls = 1
  /\ Len(rqQueue) >= 3

\* C10: the callers settled by one refresh cycle settle the same way: all
\* resolved when the refresh produced a token, all rejected with the same
\* error otherwise.
C10_ConsistentSettlement ==
  \A a \in Callers :
    caller[a].by # 0 =>
      /\ caller[a].st = (IF drains[caller[a].by] = "token"
                           THEN "resolved" ELSE "rejected")
      /\ \A b \in Callers :
           caller[b].by = caller[a].by =>
              /\ caller[b].st = caller[a].st
              /\ caller[b].error = caller[a].error

\* one cycle resolved two callers and another cycle rejected two callers
C10_Witness ==
  \E a, b, c, d \in Callers :
    /\ a # b /\ c # d
    /\ caller[a].by = caller[b].by /\ caller[a].st = "resolved"
    /\ caller[b].st = "resolved"
    /\ caller[c].by = caller[d].by /\ caller[c].st = "rejected"
    /\ caller[d].st = "rejected"

\* C11: every promise returned by handleTokenRefresh eventually settles.
C11_CallerSettles ==
  \A p \in Callers :
    (caller[p].st = "queued") ~> (caller[p].st \in {"resolved", "rejected"})

\* C12: whenever isRefreshing is false the pending queue is empty.
C12_IdleQueueEmpty == ~isRefreshing => rqQueue = <<>>

\* C13: a downloadPhoto entered while its target file exists makes no
\* downloadAsync call and returns success with the file as localUri.
C13_ExistingFileShortCircuit ==
  \A d \in 1..Len(dl) :
    (dl[d].pc = "done" /\ dl[d].existed) =>
       /\ dl[d].transfers = 0
       /\ dl[d].success
       /\ dl[d].localUri = dl[d].file

\* C14: Phase 1 cuts the pending list into contiguous chunks of batchSize
\* tasks, only the last one shorter, one chunk at a time: while a chunk is
\* awaited, the chunks before it are the first i tasks of the list and the
\* chunk is the next batchSize tasks, or all the tasks that are left.
\* (Stated for the behaviours without cancelAll.)
C14_ChunkPartition ==
  \A c \in Calls :
    (run[c].phase = "phase1" /\ cancels = 0) =>
       /\ [x \in 1..Len(run[c].urlResults) |-> run[c].urlResults[x].task]
            = SubSeq(queue, 1, run[c].i)
       /\ [x \in 1..Len(run[c].batch) |-> run[c].batch[x].task]
            = SubSeq(queue, run[c].i + 1,
                     Min(run[c].i + config.batchSize, Len(queue)))

\* C15: a failed transfer leaves the siblings alone.  A settled upload never
\* keeps a permit, so no wrapper waits behind a failed task; and every
\* Result an addTasks call returns is the outcome of that task's own
\* transfer and report, in the order of the submitted tasks.
C15_SiblingsUnaffected ==
  /\ \A c \in Calls : \A k \in 1..Len(run[c].uploads) :
        run[c].uploads[k].w = "holding" => ~UploadSettled(run[c].uploads[k])
  /\ \A c \in Calls :
        call[c].pc = "returned" =>
          /\ [x \in 1..Len(call[c].results) |-> call[c].results[x].taskId]
               = call[c].tasks
          /\ \A x \in 1..Len(call[c].results) :
               \E d \in Calls : \E k \in 1..Len(run[d].uploads) :
                  LET u == run[d].uploads[k]
                  IN  /\ UploadSettled(u)
                      /\ call[c].results[x] =
                           UploadResult(u.task, u.st = "ok", u.error)

\* tasks A, B, C with maxConcurrent = 2: B's transfer failed, the call
\* returned A success, B failure with the transfer error, C success
C15_Witness ==
  /\ config.maxConcurrent = 2
  /\ call[1].pc = "returned"
  /\ call[1].results = << UploadResult(1, TRUE, "none"),
                          UploadResult(2, FALSE, "transfer"),
                          UploadResult(3, TRUE, "none") >>

CollaboratorFailed ==
  \E c \in Calls :
     \/ \E x \in 1..Len(run[c].batch) : run[c].batch[x].st = "fail"
     \/ \E x \in 1..Len(run[c].urlResults) : ~run[c].urlResults[x].success
     \/ \E x \in 1..Len(run[c].uploads) : run[c].uploads[x].st = "fail"

\* C16: an addTasks call that is pending when cancelAll is called still
\* settles with its Result list.  Stated for the behaviours with a single
\* addTasks call in which no collaborator call fails, a part of what the
\* claim covers.
C16_CancelledCallSettles ==
  (call[1].pc \in {"running", "polling"} /\ cancels > 0)
     ~> (call[1].pc = "returned" \/ CollaboratorFailed \/ NumCalls > 1
           \/ ~ValidConfig)

\* the tasks of run c for which an authorization request, a transfer or a
\* completion report has failed
FailedTasks(c) ==
  {run[c].urlResults[x].task : x \in {y \in 1..Len(run[c].urlResults) :
                                        ~run[c].urlResults[y].success}}
    \cup
  {run[c].uploads[x].task : x \in {y \in 1..Len(run[c].uploads) :
                                     run[c].uploads[y].st = "fail"}}

\* C17: whichever of the authorization request, the transfer and the
\* completion report of a task fails, the failure shows as success = false
\* in that task's Result: when the run is over, every task with a failed
\* collaborator call has such a Result (cancelAll not called).
C17_FailureIsResult ==
  \A c \in Calls :
    (ValidConfig /\ run[c].phase = "done" /\ cancels = 0) =>
       \A t \in FailedTasks(c) :
          completedTasks[t] = UploadResult(t, FALSE, completedTasks[t].error)

\* C18: a manager whose addTasks has been called was constructed with a
\* positive maxConcurrent and a positive batchSize.
C18_ConfigValidated ==
  NumCalls > 0 => (config.maxConcurrent > 0 /\ config.batchSize > 0)

\* the authorization requests and the transfers run c has started so far
AuthStarted(c) == Len(run[c].urlResults) + Len(run[c].batch)
TransfersStarted(c) == Len(run[c].uploads)

\* C19: a run that was executing when cancelAll was called starts no
\* authorization request and no transfer afterwards.
C19_CancelStopsRun ==
  [][\A c \in cancelled :
      ValidConfig =>
        /\ Len(run'[c].urlResults) + Len(run'[c].batch) = AuthStarted(c)
        /\ Len(run'[c].uploads) = TransfersStarted(c)]_vars

\* the transfers in flight in the whole manager, over all its runs
AllTransferring == {<<c, k>> \in Calls \X Tasks : k \in Transferring(c)}

\* C20: the transfers in flight, summed over the runs of the manager that
\* overlap in time, are at most maxConcurrent.  Stated for the states in
\* which every single run is within maxConcurrent.
C20_SharedSemaphore ==
  (ValidConfig /\ \A c \in Calls :
                     Cardinality(Transferring(c)) <= config.maxConcurrent)
     => Cardinality(AllTransferring) <= config.maxConcurrent

\* C21: when the callers queued on a refresh cycle are rejected,
\* SecureStorage.clearTokens has been invoked for that failure, whatever
\* the cause and whichever interceptor the callers came through.
C21_FailureClearsStore ==
  \A p \in Callers : caller[p].st = "rejected" => caller[p].by \in cleared

\* the tasks of the downloadPhotos call that are inside downloadPhoto
DlExecuting ==
  {d \in 1..Len(dl) : dl[d].pc \in {"ensureDir", "url", "info", "transfer"}}

\* C22: during a downloadPhotos call with concurrency N > 0 at most N tasks
\* are inside downloadPhoto, and a task is inside downloadPhoto only while it
\* holds a permit: the tasks inside are as many as the permits taken, and a
\* task still queued on the semaphore has not started.
C22_DownloadBound ==
  dconc > 0 =>
    /\ Cardinality(DlExecuting) <= dconc
    /\ Cardinality(DlExecuting) = dconc - dsem.permits
    /\ \A x \in 1..Len(dsem.waiting) : dl[dsem.waiting[x]].pc = "waiting"

\* all N permits are out, a task waits, and an earlier task has returned
\* and handed its permit over
C22_Witness ==
  /\ dconc > 0
  /\ Cardinality(DlExecuting) = dconc
  /\ \E d \in 1..Len(dl) : dl[d].pc = "waiting"
  /\ \E d \in 1..Len(dl) : dl[d].pc = "done"

\* the tasks of run c whose authorization request failed
AuthFailed(c) ==
  {run[c].urlResults[x].task : x \in {y \in 1..Len(run[c].urlResults) :
                                        ~run[c].urlResults[y].success}}

\* C23: a task whose authorization request failed in a run is not among
\* the uploads of that run: no transfer and no completion report is made
\* for it.
C23_FailedAuthExcluded ==
  \A c \in Calls : \A k \in 1..Len(run[c].uploads) :
     run[c].uploads[k].task \notin AuthFailed(c)

\* a run in Phase 2 or over, with a task that failed authorization and
\* another that was transferred
C23_Witness ==
  \E c \in Calls :
     /\ run[c].phase \in {"phase2", "done"}
     /\ AuthFailed(c) # {}
     /\ Len(run[c].uploads) >= 1

\* C24: the completion report of an upload is called only when its transfer
\* has just succeeded, never for an upload whose transfer failed, and a
\* success Result is recorded for a task only in the step in which the
\* completion report of one of its uploads succeeds.
C24_ReportAfterTransfer ==
  [][/\ \A c \in Calls : \A k \in 1..Len(run'[c].uploads) :
          LET new == run'[c].uploads[k]
          IN  /\ k > Len(run[c].uploads) => new.st # "reporting"
              /\ (new.st = "reporting" /\ k <= Len(run[c].uploads)) =>
                    /\ run[c].uploads[k].st \in {"transferring", "reporting"}
                    /\ run[c].uploads[k].error = "none"
              /\ new.error = "transfer" => new.st = "fail"
     /\ \A t \in Tasks :
          (completedTasks'[t].success /\ ~completedTasks[t].success) =>
             \E c \in Calls : \E k \in 1..Len(run[c].uploads) :
                /\ run[c].uploads[k].task = t
                /\ run[c].uploads[k].st = "reporting"
                /\ run'[c].uploads[k].st = "ok"]_vars

\* one upload went through transfer and report and has a success Result,
\* another failed its transfer and was never reported
C24_Witness ==
  \E c \in Calls : \E j, k \in 1..Len(run[c].uploads) :
     /\ run[c].uploads[j].st = "ok"
     /\ completedTasks[run[c].uploads[j].task].success
     /\ run[c].uploads[k].st = "fail"
     /\ run[c].uploads[k].error = "transfer"

\* C25: when the completion report of an upload is rejected the task's
\* Result is a failure carrying the report's error, although the transfer
\* succeeded; and within a run a task has one upload, whose transfer and
\* report are each made once: an upload never goes back to an earlier step
\* and a settled upload is never started again.
C25_ReportFailureNoRetry ==
  [][\A c \in Calls :
       /\ \A j, k \in 1..Len(run'[c].uploads) :
             run'[c].uploads[j].task = run'[c].uploads[k].task => j = k
       /\ \A k \in 1..Len(run[c].uploads) :
             LET old == run[c].uploads[k]
                 new == run'[c].uploads[k]
             IN  /\ new.task = old.task
                 /\ old.st = "reporting" => new.st \in {"reporting", "ok", "fail"}
                 /\ UploadSettled(old) => (new.st = old.st /\ new.error = old.error)
                 /\ (old.st = "reporting" /\ new.st = "fail") =>
                       /\ new.error = "report"
                       /\ completedTasks'[old.task] =
                            UploadResult(old.task, FALSE, "report")]_vars

\* an upload whose transfer succeeded and whose completion report was
\* rejected, with its failure Result
C25_Witness ==
  \E c \in Calls : \E k \in 1..Len(run[c].uploads) :
     /\ run[c].uploads[k].st = "fail"
     /\ run[c].uploads[k].error = "report"
     /\ completedTasks[run[c].uploads[k].task] =
          UploadResult(run[c].uploads[k].task, FALSE, "report")

\* C26: a release that finds waiters removes the head of the waiting queue
\* and leaves permits as it was; a release that finds none adds one permit
\* and leaves the queue alone; an acquire that finds a free permit takes
\* one and does not enqueue.
C26_SemaphoreFrame ==
  [][/\ (\E p \in Acquirers : acq[p] = "holding" /\ acq'[p] = "released") =>
          IF sem.waiting # <<>>
            THEN sem'.waiting = Tail(sem.waiting) /\ sem'.permits = sem.permits
            ELSE sem'.waiting = sem.waiting /\ sem'.permits = sem.permits + 1
     /\ ((\E p \in Acquirers : acq[p] = "idle" /\ acq'[p] # "idle")
           /\ sem.permits > 0) =>
          (sem'.permits = sem.permits - 1 /\ sem'.waiting = sem.waiting)]_vars

\* a release has granted a waiter and a later release, finding the queue
\* empty, has put a permit back
C26_Witness ==
  /\ Len(grants) >= 1
  /\ sem.waiting = <<>>
  /\ sem.permits >= 1

\* the wrappers of run c that hold a permit
UploadHolders(c) ==
  {k \in 1..Len(run[c].uploads) : run[c].uploads[k].w = "holding"}

\* the wrappers of the downloadPhotos call have all settled
DlAllSettled ==
  dconc > 0 /\ \A d \in 1..Len(dl) : dl[d].pc \in {"done", "threw"}

\* C27: in both managers a permit that was acquired is released once,
\* whether the task succeeded, failed or had its completion callback throw:
\* the permits out are those of the wrappers at work, and when all the
\* wrappers of a run have settled the Semaphore is as it was created.
C27_AcquireReleasePaired ==
  /\ \A c \in Calls :
        /\ run[c].phase \in {"phase2", "done"} =>
              run[c].sem.permits + Cardinality(UploadHolders(c))
                 = config.maxConcurrent
        /\ run[c].phase = "done" => run[c].sem = Semaphore(config.maxConcurrent)
  /\ dconc > 0 => dsem.permits + Cardinality(DlExecuting) = dconc
  /\ DlAllSettled => dsem = Semaphore(dconc)

\* a downloadPhotos call with more tasks than permits is over: a transfer
\* failed, a completion callback threw, and another task returned normally
C27_Witness ==
  /\ DlAllSettled
  /\ Len(dl) > dconc
  /\ \E d \in 1..Len(dl) : dl[d].pc = "threw"
  /\ \E d \in 1..Len(dl) : dl[d].pc = "done" /\ dl[d].error = "transfer"
  /\ \E d \in 1..Len(dl) : dl[d].pc = "done" /\ dl[d].success

\* the authorization requests of run c that have not settled
AuthInFlight(c) ==
  {x \in 1..Len(run[c].batch) : run[c].batch[x].st = "pending"}

\* C28: a run never has more than batchSize authorization requests in
\* flight, and when its Phase 1 ends every task of the pending list has had
\* exactly one authorization request in the run (cancelAll not called).
C28_OneRequestPerTask ==
  [][\A c \in Calls :
       (ValidConfig /\ cancels = 0) =>
          /\ Cardinality(AuthInFlight(c)) <= config.batchSize
          /\ (run[c].phase = "phase1" /\ run'[c].phase \in {"phase2", "done"}) =>
                \A x \in 1..Len(queue') :
                   Cardinality({y \in 1..Len(run'[c].urlResults) :
                                  run'[c].urlResults[y].task = queue'[x]}) = 1]_vars

\* C29: cancelAll empties the pending list, clears isProcessing and changes
\* nothing else: the completed Results, the runs with their transfers in
\* flight and the pending calls are as before; and an upload of a run that
\* was executing at a cancelAll, once settled, has its Result recorded.
C29_CancelFrame ==
  [][/\ cancels' # cancels =>
          /\ queue' = <<>>
          /\ isProcessing' = FALSE
          /\ completedTasks' = completedTasks
          /\ run' = run
          /\ call' = call
          /\ config' = config
     /\ \A c \in cancelled : \A k \in 1..Len(run'[c].uploads) :
          UploadSettled(run'[c].uploads[k]) =>
             completedTasks'[run'[c].uploads[k].task].taskId
                = run'[c].uploads[k].task]_vars

\* cancelAll was called, and a run that was executing then has since
\* finished its transfers and recorded a success
C29_Witness ==
  /\ cancels > 0
  /\ ~isProcessing
  /\ \E c \in cancelled : \E k \in 1..Len(run[c].uploads) :
        /\ run[c].phase = "done"
        /\ run[c].uploads[k].st = "ok"
        /\ completedTasks[run[c].uploads[k].task].success

\* C30: each entry of the pending queue is settled exactly once: a settled
\* caller is never settled again, the drain that settles the entries empties
\* the queue in the same step, and a queued caller always has a refresh in
\* flight whose settlement will drain it.
C30_SettledExactlyOnce ==
  [][/\ \A p \in Callers :
          caller[p].st \in {"resolved", "rejected"} => caller'[p] = caller[p]
     /\ drains' # drains =>
          /\ rqQueue' = <<>>
          /\ \A x \in 1..Len(rqQueue) :
                /\ caller'[rqQueue[x]].st \in {"resolved", "rejected"}
                /\ caller'[rqQueue[x]].by = Len(drains')
     /\ \A p \in Callers : caller'[p].st = "queued" => inFlight' > 0]_vars

\* C31: a request to a public endpoint (login, signup, refresh) never calls
\* handleTokenRefresh, neither in the request interceptor nor on a 401, and
\* is never sent again; so a refresh request cannot start another refresh.
C31_PublicNeverRefreshes ==
  \A r \in Requests :
    req[r].url \in {"login", "signup", "refresh"} =>
       /\ req[r].byRequest = 0
       /\ req[r].by401 = 0
       /\ req[r].retries = 0
       /\ req[r].pc \notin {"proactive", "refreshing"}

\* a request to the refresh endpoint was answered 401 and failed while the
\* stored token was due for refresh, and a request to a protected endpoint
\* did call handleTokenRefresh
C31_Witness ==
  \E r, q \in Requests :
    /\ req[r].url = "refresh" /\ req[r].pc = "failed"
    /\ store = "due"
    /\ req[q].url = "photos" /\ req[q].byRequest = 1

\* C32: a request goes through at most one refresh-and-retry: the response
\* interceptor calls handleTokenRefresh at most once for it and sends it
\* again at most once, and a response to a request marked _retry ends the
\* request without a handleTokenRefresh call.
C32_RetryOnce ==
  [][\A r \in Requests :
       /\ req'[r].by401 <= 1
       /\ req'[r].retries <= req'[r].by401
       /\ (req[r].retry /\ req[r].pc = "sent" /\ req'[r] # req[r]) =>
             /\ req'[r].pc \in {"done", "failed"}
             /\ req'[r].by401 = req[r].by401]_vars

\* a request was answered 401, refreshed, sent again and then failed
C32_Witness ==
  \E r \in Requests :
    /\ req[r].retries = 1
    /\ req[r].by401 = 1
    /\ req[r].pc = "failed"

\* C33: a request whose token was due for refresh goes out with the newly
\* issued token when the proactive refresh succeeded and with the original
\* token when it failed, so it always carries an Authorization header.
C33_ProactiveHeader ==
  \A r \in Requests :
    (req[r].pc = "sent" /\ req[r].retries = 0) =>
       /\ req[r].proactive = "resolved" => req[r].header = "new"
       /\ req[r].proactive = "rejected" => req[r].header = req[r].token

\* C34: when the K tasks of a downloadPhotos call have all returned (no
\* completion callback threw), the call resolves with K results, the i-th
\* for the i-th task; a task whose directory creation, URL request or
\* transfer failed has success = false, and the others have their own
\* outcome.
C34_ResultPerDownload ==
  (dconc > 0 /\ \A d \in 1..Len(dl) : dl[d].pc = "done") =>
     LET v == PromiseAll(dl)
     IN  /\ v.st = "resolved"
         /\ Len(v.results) = Len(dl)
         /\ \A i \in 1..Len(dl) :
               /\ v.results[i].task = i
               /\ v.results[i].file = dl[i].file
               /\ v.results[i].success = (dl[i].error = "none")
               /\ v.results[i].success => v.results[i].localUri = dl[i].file

\* three tasks have returned: a URL request failed, a transfer failed and
\* the third task was downloaded
C34_Witness ==
  /\ dconc > 0
  /\ Len(dl) = 3
  /\ \A d \in 1..Len(dl) : dl[d].pc = "done"
  /\ \E a, b, c \in 1..Len(dl) :
        /\ dl[a].error = "url"
        /\ dl[b].error = "transfer"
        /\ dl[c].success /\ dl[c].transfers = 1

\* the call submits a task id that an earlier call submitted
Resubmits(c, t) ==
  /\ \E x \in 1..Len(call[c].tasks) : call[c].tasks[x] = t
  /\ \E d \in Calls : d < c /\ \E x \in 1..Len(call[d].tasks) : call[d].tasks[x] = t

\* C35: an addTasks call that submits again a task id with a Result from
\* an earlier run returns only after its own pipeline run has requested an
\* authorization for the task.
C35_ResubmitRunsPipeline ==
  \A c \in Calls, t \in Tasks :
    (ValidConfig /\ cancels = 0 /\ Resubmits(c, t) /\ call[c].pc = "returned") =>
       \E j \in 1..Len(run[c].urlResults) : run[c].urlResults[j].task = t

\* C36: getStatus counts every submitted task in exactly one of queued,
\* active and completed: active is the number of transfers in flight, a task
\* with a Result is not counted in queued, and total is the number of
\* distinct tasks submitted (stated for a manager that was not cancelled).
C36_StatusPartition ==
  (ValidConfig /\ cancels = 0) =>
     LET s == GetStatus
         submitted == 1..(nextTask - 1)
     IN  /\ s.active = Cardinality(AllTransferring)
         /\ s.queued <= Cardinality({t \in submitted : completedTasks[t].taskId # t})
         /\ s.total = Cardinality(submitted)

\* C37: of the tasks of one downloadPhotos call that target the same
\* filename, at most one ever starts a transfer (downloadAsync) to that
\* local path.
C37_OneTransferPerFile ==
  \A f \in Files :
    Cardinality({d \in 1..Len(dl) : dl[d].file = f /\ dl[d].transfers > 0}) <= 1

\* the waiters a release has handed a permit to and whose continuation has
\* not run yet
Woken ==
  {q \in Acquirers : acq[q] = "granted" /\ \E x \in 1..Len(grants) : grants[x] = q}

\* C38: no barging: an acquire called while a waiter that a release handed
\* a permit to has not resumed yet leaves that waiter its permit; when all
\* permits are out, that one included, the caller is put at the tail of the
\* waiting queue.
C38_NoBarging ==
  [][\A p \in Acquirers, q \in Woken :
       (acq[p] = "idle" /\ acq'[p] # "idle") =>
          /\ acq'[q] = "granted"
          /\ IF Cardinality(Holders) = semN
               THEN acq'[p] = "waiting" /\ sem'.waiting = Append(sem.waiting, p)
               ELSE acq'[p] = "granted" /\ sem'.waiting = sem.waiting]_vars

\* the only release so far found one waiter and handed it the permit; before
\* that waiter resumed a second caller called acquire and waits
C38_Witness ==
  /\ maxQueued = 1
  /\ Len(grants) = 1
  /\ Len(arrivals) = 2
  /\ grants[1] = arrivals[1]
  /\ acq[arrivals[1]] = "granted"
  /\ acq[arrivals[2]] = "waiting"
  /\ sem.waiting = <<arrivals[2]>>

\* C39: between suspension points a Semaphore created with N >= 1 permits,
\* whose users release only what they acquired, has 0 <= permits <= N,
\* permits plus the number of holders equal to N, and no free permit while
\* callers wait.
C39_PermitAccounting ==
  /\ semN >= 1
  /\ 0 <= sem.permits /\ sem.permits <= semN
  /\ sem.permits + Cardinality(Holders) = semN
  /\ sem.waiting # <<>> => sem.permits = 0

\* with two permits: a release found two callers waiting, two waiters have
\* been granted, and a later release, finding nobody waiting, has put its
\* permit back
C39_Witness ==
  /\ semN = 2
  /\ Len(grants) >= 2
  /\ \E p \in Acquirers : acq[p] = "released"
  /\ sem.permits = 1
  /\ Cardinality(Holders) = 1
  /\ maxQueued >= 2

====
